---- MODULE Spec2Model ----
(***************************************************************************)
(* Model of docs/nyalock/nyalock.js: the in-browser retrieval client.      *)
(*                                                                         *)
(*   - tokenize, buildIndex, score: the pure retrieval functions, as       *)
(*     operators over texts that are sequences of characters;              *)
(*   - fetchJsonWithFallback / loadData: the corpus loader, one action per *)
(*     settled fetch;                                                      *)
(*   - the form's submit handler and callRelay: one action for the         *)
(*     synchronous part of the handler, one for each settlement of an      *)
(*     outstanding relay call.                                             *)
(*                                                                         *)
(* Two specifications: Spec is the page session (load, queries, relay),    *)
(* SpecPure applies buildIndex and score to inputs drawn from bounded sets.*)
(***************************************************************************)
EXTENDS Integers, Sequences, FiniteSets

VARIABLES
    chat,        \* the messages appended to #chat by addMsg, in order
    docs,        \* let docs = []
    index,       \* let index = null
    ldPc,        \* where loadData is: "fetching", "loaded" or "failed"
    fetchLog,    \* the paths fetch() was issued for, in order
    responses,   \* the responses those fetches settled with, in order
    lastErr,     \* fetchJsonWithFallback's lastErr
    pending,     \* submit handlers suspended at `await callRelay(q, top)`
    relayLog,    \* the relay requests issued: [qid, prompt, contexts]
    relayDone,   \* history: the relay responses settled: [qid, r]
    subs,        \* history: one record per submit event, in order
    pItems,      \* SpecPure: the corpus handed to buildIndex
    pIndex,      \* SpecPure: the index buildIndex returned
    pQuery,      \* SpecPure: the query last handed to score
    pTopK,       \* SpecPure: the topK last handed to score
    pResult,     \* SpecPure: what score returned
    pPc          \* SpecPure: "start", "indexed" or "scored"

sessionVars == <<chat, docs, index, ldPc, fetchLog, responses, lastErr,
                 pending, relayLog, relayDone, subs>>
pureVars == <<pItems, pIndex, pQuery, pTopK, pResult, pPc>>
vars == <<sessionVars, pureVars>>

----------------------------------------------------------------------------
(* Bounds of the model.                                                    *)

\* the longest corpus SpecPure draws
MaxChunks == 3
\* the largest topK SpecPure hands to score (besides the handler's 8)
MaxTopK == 4
\* the number of submit events of a session
MaxQueries == 2

----------------------------------------------------------------------------
(* Characters and texts.  A text is a sequence of one-character strings.   *)

Punct == {"!", ","}
White == {" ", "\n"}

\* String.prototype.toLowerCase, on one character
toLowerCase(c) ==
    CASE c = "C" -> "c"
      [] c = "D" -> "d"
      [] OTHER -> c

Min(a, b) == IF a < b THEN a ELSE b

RECURSIVE SplitWhite(_, _, _)
\* text.split(/\s+/).filter(Boolean): the maximal runs of non-whitespace
SplitWhite(s, cur, acc) ==
    IF s = <<>>
    THEN IF cur = <<>> THEN acc ELSE Append(acc, cur)
    ELSE IF Head(s) \in White
         THEN SplitWhite(Tail(s), <<>>, IF cur = <<>> THEN acc ELSE Append(acc, cur))
         ELSE SplitWhite(Tail(s), Append(cur, Head(s)), acc)

\* function tokenize(text): lowercase, punctuation and symbols to a space,
\* split on runs of whitespace, drop the empty pieces.  A token is a
\* sequence of characters.
tokenize(text) ==
    LET lowered == [k \in 1..Len(text) |-> toLowerCase(text[k])]
        spaced == [k \in 1..Len(text) |->
                     IF lowered[k] \in Punct THEN " " ELSE lowered[k]]
    IN SplitWhite(spaced, <<>>, <<>>)

\* Map.prototype.get with the code's `|| 0`
Get(m, k) == IF k \in DOMAIN m THEN m[k] ELSE 0

\* Map.prototype.set
Put(m, k, v) == [x \in DOMAIN m \cup {k} |-> IF x = k THEN v ELSE m[x]]

EmptyMap == [x \in {} |-> 0]

RECURSIVE CountTokens(_, _)
\* for (const t of tokens) counts.set(t, (counts.get(t) || 0) + 1)
CountTokens(tokens, counts) ==
    IF tokens = <<>> THEN counts
    ELSE CountTokens(Tail(tokens), Put(counts, Head(tokens), Get(counts, Head(tokens)) + 1))

\* the slip of counting every occurrence instead of every chunk
BumpDfPerToken(df, counts) ==
    [t \in DOMAIN df \cup DOMAIN counts |-> Get(df, t) + Get(counts, t)]

\* for (const term of counts.keys()) df.set(term, (df.get(term) || 0) + 1)
BumpDf(df, counts) ==
    [t \in DOMAIN df \cup DOMAIN counts |->
        IF t \in DOMAIN counts THEN Get(df, t) + 1 ELSE df[t]]

RECURSIVE IndexFrom(_, _, _, _)
\* the body of items.map(...) in buildIndex, chunk k onwards
IndexFrom(items, k, df, tf) ==
    IF k > Len(items) THEN [df |-> df, tf |-> tf]
    ELSE LET tokens == tokenize(items[k].text)
             counts == CountTokens(tokens, EmptyMap)
         IN IndexFrom(items, k + 1, BumpDf(df, counts), Append(tf, counts))

\* function buildIndex(items)
buildIndex(items) ==
    LET r == IndexFrom(items, 1, EmptyMap, <<>>)
    IN [items |-> items, df |-> r.df, tf |-> r.tf, N |-> Len(items)]

----------------------------------------------------------------------------
(* Scoring.  Math.log is modelled in fixed point: LnMilli[n] is            *)
(* 1000 * ln(n) rounded, and a score is kept scaled by 1000 * 1000, so no  *)
(* division is needed.                                                     *)

Milli == 1000

LnMilli == <<0, 693, 1099, 1386, 1609, 1792, 1946, 2079,
             2197, 2303, 2398, 2485, 2565, 2639, 2708, 2773>>

\* Math.log((index.N + 1) / (df + 0.5)) = ln(2N + 2) - ln(2df + 1)
Idf(N, df) == LnMilli[2 * N + 2] - LnMilli[2 * df + 1]

\* (qtf * (1 + Math.log(1 + tf))) * idf
TermWeight(qtf, tf, idf) == (qtf * (Milli + LnMilli[1 + tf])) * idf

RECURSIVE SumTerms(_, _, _, _)
\* the for loop over qCounts.entries(), in insertion order (qOrder)
SumTerms(qOrder, qCounts, idx, i) ==
    IF qOrder = <<>> THEN 0
    ELSE LET term == Head(qOrder)
             df == Get(idx.df, term)
             rest == SumTerms(Tail(qOrder), qCounts, idx, i)
         IN IF df = 0 THEN rest
            ELSE TermWeight(qCounts[term], Get(idx.tf[i], term), Idf(idx.N, df)) + rest

RECURSIVE Distinct(_, _)
\* the keys of qCounts in insertion order
Distinct(tokens, seen) ==
    IF tokens = <<>> THEN seen
    ELSE Distinct(Tail(tokens),
                  IF \E k \in 1..Len(seen) : seen[k] = Head(tokens)
                  THEN seen ELSE Append(seen, Head(tokens)))

\* index.items.map((it, i) => ({ i, s })): chunk positions are 1-based here
Scores(query, idx) ==
    LET qTokens == tokenize(query)
        qCounts == CountTokens(qTokens, EmptyMap)
        qOrder == Distinct(qTokens, <<>>)
    IN [i \in 1..Len(idx.items) |-> [i |-> i, s |-> SumTerms(qOrder, qCounts, idx, i)]]

\* a sort that puts an element before its equals: not stable
InsertUnstable(sorted, e) ==
    LET n == Len(sorted)
        p == IF \E k \in 1..n : sorted[k].s <= e.s
             THEN CHOOSE k \in 1..n :
                     /\ sorted[k].s <= e.s
                     /\ \A j \in 1..(k - 1) : sorted[j].s > e.s
             ELSE n + 1
    IN SubSeq(sorted, 1, p - 1) \o <<e>> \o SubSeq(sorted, p, n)

\* where a stable descending sort puts e: after every element that does not
\* sort strictly after it
Insert(sorted, e) ==
    LET n == Len(sorted)
        p == IF \E k \in 1..n : sorted[k].s < e.s
             THEN CHOOSE k \in 1..n :
                     /\ sorted[k].s < e.s
                     /\ \A j \in 1..(k - 1) : sorted[j].s >= e.s
             ELSE n + 1
    IN SubSeq(sorted, 1, p - 1) \o <<e>> \o SubSeq(sorted, p, n)

RECURSIVE SortFrom(_, _, _)
SortFrom(arr, k, sorted) ==
    IF k > Len(arr) THEN sorted
    ELSE SortFrom(arr, k + 1, Insert(sorted, arr[k]))

\* scores.sort((a, b) => b.s - a.s).  Array.prototype.sort is stable in
\* every engine that can run this script (the script uses ?. of ES2020;
\* stability is required since ES2019).
SortDesc(arr) == SortFrom(arr, 1, <<>>)

\* Array.prototype.slice(0, n), n >= 0
Slice(arr, n) == SubSeq(arr, 1, Min(n, Len(arr)))

\* scores.sort(...).slice(0, topK): the ranked {i, s} pairs score maps over
Ranked(query, idx, topK) == Slice(SortDesc(Scores(query, idx)), topK)

\* the slip of filtering the chunks that scored zero
scoreNonZero(query, idx, topK) ==
    LET r == Slice(SelectSeq(SortDesc(Scores(query, idx)), LAMBDA e : e.s > 0), topK)
    IN [k \in 1..Len(r) |-> [i |-> r[k].i, item |-> idx.items[r[k].i], score |-> r[k].s]]

\* function score(query, index, topK = 8): the chunk's fields plus score.
\* The position i is kept next to the chunk's fields so that properties can
\* name the chunk a result came from; the code's result drops it.
score(query, idx, topK) ==
    LET r == Ranked(query, idx, topK)
    IN [k \in 1..Len(r) |-> [i |-> r[k].i, item |-> idx.items[r[k].i], score |-> r[k].s]]

----------------------------------------------------------------------------
(* The corpus file and its assembly into chunks (loadData).                *)

RECURSIVE SkipNewlines(_)
SkipNewlines(s) ==
    IF s # <<>> /\ Head(s) = "\n" THEN SkipNewlines(Tail(s)) ELSE s

RECURSIVE SplitParas(_, _, _)
\* text.split(/\n\n+/).filter(Boolean): cut at every run of two or more
\* newlines, drop the empty pieces
SplitParas(s, cur, acc) ==
    IF s = <<>>
    THEN IF cur = <<>> THEN acc ELSE Append(acc, cur)
    ELSE IF Len(s) >= 2 /\ s[1] = "\n" /\ s[2] = "\n"
         THEN SplitParas(SkipNewlines(s), <<>>, IF cur = <<>> THEN acc ELSE Append(acc, cur))
         ELSE SplitParas(Tail(s), Append(cur, Head(s)), acc)

\* p.slice(0, 2000)
MaxChunkLen == 2000

\* a || b on strings
OrElse(a, b) == IF a # "" THEN a ELSE b

\* parts.forEach((p, idx) => items.push({ id, text, title, date, url }));
\* the id `${url}#p${idx}` is the pair <<url, idx>>
ChunksOf(text, title, date, url) ==
    LET parts == SplitParas(text, <<>>, <<>>)
    IN [k \in 1..Len(parts) |->
          [id |-> <<url, k - 1>>, text |-> Slice(parts[k], MaxChunkLen),
           title |-> title, date |-> date, url |-> url]]

RECURSIVE ChunksOfRecords(_, _)
\* loadData's two loops, which differ in the date only: the videos loop
\* reads estimated_date alone.  A missing metadata field is the empty
\* string; a record without text is skipped.
ChunksOfRecords(recs, videos) ==
    IF recs = <<>> THEN <<>>
    ELSE LET r == Head(recs)
             rest == ChunksOfRecords(Tail(recs), videos)
             date == IF videos THEN r.estimated_date
                     ELSE OrElse(r.record_date, r.estimated_date)
         IN IF r.transcription = <<>> THEN rest
            ELSE ChunksOf(r.transcription, OrElse(r.title, "Untitled"), date, r.url)
                 \o rest

\* the items loadData collects from the parsed corpus file
assemble(data) ==
    (IF data.hasTranscriptions
     THEN ChunksOfRecords(data.transcriptions, FALSE)
     ELSE <<>>)
    \o
    (IF data.hasVideos
     THEN ChunksOfRecords(data.videos, TRUE)
     ELSE <<>>)

----------------------------------------------------------------------------
(* The corpus files and responses a session may meet.                      *)

RecA == [title |-> "A", record_date |-> "2024-01-01", estimated_date |-> "2024-01-09",
         url |-> "ua",
         transcription |-> <<"c","a","t"," ","d","o","g","\n","\n","d","o","g"," ","d","o","g">>]
RecEmpty == [title |-> "E", record_date |-> "", estimated_date |-> "", url |-> "ue",
             transcription |-> <<>>]
RecV == [title |-> "V", record_date |-> "", estimated_date |-> "2024-03-03", url |-> "uv",
         transcription |-> <<"c","a","t","\n","\n","z">>]
RecB == [title |-> "", record_date |-> "2024-02-01", estimated_date |-> "2024-02-02",
         url |-> "ub",
         transcription |-> <<"D","o","g","!","\n","\n","\n","c","a","t",",","c","a","t">>]

\* The corpus files below have the shape the pipeline writes: arrays of
\* records whose fields are strings (or missing).

\* { transcriptions: [A], videos: [V] }: four chunks
DataA == [hasTranscriptions |-> TRUE, transcriptions |-> <<RecA>>,
          hasVideos |-> TRUE, videos |-> <<RecV>>]
\* { transcriptions: [E], videos: [B] }: two chunks
DataB == [hasTranscriptions |-> TRUE, transcriptions |-> <<RecEmpty>>,
          hasVideos |-> TRUE, videos |-> <<RecB>>]
\* {}: no chunk
DataNone == [hasTranscriptions |-> FALSE, transcriptions |-> <<>>,
             hasVideos |-> FALSE, videos |-> <<>>]

\* A response body is known by what the loader asks of it: whether its
\* trimmed text starts with "<", and what JSON.parse makes of it.  No JSON
\* text starts with "<", so such a body never parses.
HtmlBody == [startsLt |-> TRUE, parses |-> FALSE, value |-> DataNone]
JunkBody == [startsLt |-> FALSE, parses |-> FALSE, value |-> DataNone]
JsonBody(d) == [startsLt |-> FALSE, parses |-> TRUE, value |-> d]

\* fetch() rejected: no response at all
NetworkFailure ==
    [rejected |-> TRUE, ok |-> FALSE, status |-> 0, ct |-> "", body |-> JunkBody]
Response(status, ct, body) ==
    [rejected |-> FALSE, ok |-> status \in 200..299, status |-> status, ct |-> ct,
     body |-> body]

Responses ==
    { NetworkFailure,
      Response(500, "application/json", JsonBody(DataA)),
      Response(200, "text/html", HtmlBody),
      Response(200, "application/json", HtmlBody),
      Response(200, "text/plain", JunkBody),
      Response(200, "application/json", JsonBody(DataA)),
      Response(200, "", JsonBody(DataB)),
      Response(200, "application/json; charset=utf-8", JsonBody(DataNone)) }

\* the argument of loadData's call of fetchJsonWithFallback
paths == <<"./real_transcriptions.json", "../real_transcriptions.json">>

----------------------------------------------------------------------------
(* fetchJsonWithFallback and loadData.                                     *)

\* ct.includes('application/json'), over the content types of Responses
includesJson(ct) == ct \in {"application/json", "application/json; charset=utf-8"}

NoErr == [kind |-> "none", status |-> 0]
Err(kind, status) == [kind |-> kind, status |-> status]

\* the slip of not looking at res.ok
attemptAnyStatus(r) ==
    IF r.rejected THEN [ok |-> FALSE, e |-> Err("network", 0), value |-> DataNone]
    ELSE IF ~includesJson(r.ct) /\ r.body.startsLt
    THEN [ok |-> FALSE, e |-> Err("html", 0), value |-> DataNone]
    ELSE IF ~r.body.parses
    THEN [ok |-> FALSE, e |-> Err("parse", 0), value |-> DataNone]
    ELSE [ok |-> TRUE, e |-> NoErr, value |-> r.body.value]

\* the try block of fetchJsonWithFallback on the response r of one
\* candidate: the parsed body, or the error thrown
attempt(r) ==
    IF r.rejected THEN [ok |-> FALSE, e |-> Err("network", 0), value |-> DataNone]
    ELSE IF ~r.ok
    THEN [ok |-> FALSE, e |-> Err("status", r.status), value |-> DataNone]
    ELSE IF ~includesJson(r.ct) /\ r.body.startsLt
    THEN [ok |-> FALSE, e |-> Err("html", 0), value |-> DataNone]
    ELSE IF ~r.body.parses
    THEN [ok |-> FALSE, e |-> Err("parse", 0), value |-> DataNone]
    ELSE [ok |-> TRUE, e |-> NoErr, value |-> r.body.value]

\* the slip of keeping the first error
catchFirst(last, e) == IF last = NoErr THEN e ELSE last

\* catch (e) { lastErr = e; }
catch(last, e) == e

Null == [null |-> TRUE]

\* A message of #chat: the role, which of the code's literals the text is
\* (kind), the value interpolated into it (arg), the reference line (meta,
\* with hasMeta), and - history only - the submit event it belongs to
\* (qid, 0 for the loader's messages).
Msg(role, kind, arg, hasMeta, meta, qid) ==
    [role |-> role, kind |-> kind, arg |-> arg, hasMeta |-> hasMeta, meta |-> meta,
     qid |-> qid]

\* function addMsg(role, text, meta = null)
addMsg(c, m) == Append(c, m)

\* a candidate's fetch settles with r: one turn of the loop of
\* fetchJsonWithFallback and, when the loop ends, the rest of loadData
FetchSettle(r) ==
    /\ ldPc = "fetching"
    /\ Len(responses) < Len(fetchLog)
    /\ responses' = Append(responses, r)
    /\ LET a == attempt(r)
           n == Len(fetchLog)
       IN IF a.ok
          THEN LET items == assemble(a.value)
               IN /\ docs' = items
                  /\ index' = buildIndex(items)
                  /\ chat' = addMsg(chat, Msg("bot", "loaded", Len(items), FALSE, <<>>, 0))
                  /\ ldPc' = "loaded"
                  /\ UNCHANGED <<lastErr, fetchLog>>
          ELSE /\ lastErr' = catch(lastErr, a.e)
               /\ IF n < Len(paths)
                  THEN /\ fetchLog' = Append(fetchLog, paths[n + 1])
                       /\ UNCHANGED <<chat, ldPc>>
                  ELSE /\ chat' = addMsg(chat, Msg("bot", "loadfail", lastErr', FALSE, <<>>, 0))
                       /\ ldPc' = "failed"
                       /\ UNCHANGED fetchLog
               /\ UNCHANGED <<docs, index>>
    /\ UNCHANGED <<pending, relayLog, relayDone, subs>>
    /\ UNCHANGED pureVars

----------------------------------------------------------------------------
(* callRelay and the submit handler.                                       *)

RECURSIVE TrimStart(_)
TrimStart(s) == IF s # <<>> /\ Head(s) \in White THEN TrimStart(Tail(s)) ELSE s

RECURSIVE TrimEnd(_)
TrimEnd(s) ==
    IF s # <<>> /\ s[Len(s)] \in White THEN TrimEnd(SubSeq(s, 1, Len(s) - 1)) ELSE s

\* String.prototype.trim
trim(s) == TrimEnd(TrimStart(s))

\* the handler's fixed topK: score(q, index, 8)
HandlerTopK == 8

\* top.slice(0, 3)
RefCount == 3

\* top.slice(0, 3).map(t => `${t.title} (${t.date})`).join(' / '): the label
\* is kept as the sequence of its <<title, date>> parts
refTextOf(top) ==
    LET t3 == Slice(top, RefCount)
    IN [k \in 1..Len(t3) |-> <<t3[k].item.title, t3[k].item.date>>]

\* top.map(t => `[title date]\n text`).join('\n\n') inside the template
stitchedOf(top) ==
    [k \in 1..Len(top) |-> <<top[k].item.title, top[k].item.date, top[k].item.text>>]

\* A relay's JSON answer: null, or an object of string fields.
KeyText == <<"t","e","x","t">>
KeyAnswer == <<"a","n","s","w","e","r">>
JsonNull == [isNull |-> TRUE, keys |-> <<>>, vals |-> <<>>]
JsonObject(keys, vals) == [isNull |-> FALSE, keys |-> keys, vals |-> vals]

\* data?.name: the empty string stands for undefined too (both are falsy)
Field(data, name) ==
    IF data.isNull \/ ~(\E k \in 1..Len(data.keys) : data.keys[k] = name) THEN <<>>
    ELSE data.vals[CHOOSE k \in 1..Len(data.keys) : data.keys[k] = name]

RECURSIVE Members(_, _, _)
\* "key":"value" of members k.. of an object, comma-separated
Members(keys, vals, k) ==
    IF k > Len(keys) THEN <<>>
    ELSE <<"\"">> \o keys[k] \o <<"\"", ":", "\"">> \o vals[k] \o <<"\"">>
         \o (IF k < Len(keys) THEN <<",">> ELSE <<>>) \o Members(keys, vals, k + 1)

\* JSON.stringify(data)
stringify(data) ==
    IF data.isNull THEN <<"n","u","l","l">>
    ELSE <<"{">> \o Members(data.keys, data.vals, 1) \o <<"}">>

\* a relay response: fetch rejected; or a status and a body that res.json()
\* parses or not
RelayRejected == [rejected |-> TRUE, ok |-> FALSE, status |-> 0, parses |-> FALSE,
                  data |-> JsonNull]
RelayResponse(status, parses, data) ==
    [rejected |-> FALSE, ok |-> status \in 200..299, status |-> status,
     parses |-> parses, data |-> data]

RelayResponses ==
    { RelayRejected,
      RelayResponse(500, TRUE, JsonObject(<<KeyText>>, <<<<"h","i">>>>)),
      RelayResponse(200, FALSE, JsonNull),
      RelayResponse(200, TRUE, JsonObject(<<KeyText>>, <<<<"h","i">>>>)),
      RelayResponse(200, TRUE, JsonObject(<<KeyText, KeyAnswer>>, <<<<>>, <<"y","o">>>>)),
      RelayResponse(200, TRUE, JsonObject(<<KeyText>>, <<<<>>>>)) }

\* what `await callRelay(...)` gives the handler: a thrown error, null, or
\* a string
Threw(e) == [threw |-> TRUE, e |-> e, isNull |-> FALSE, str |-> <<>>]
Returned(isNull, str) == [threw |-> FALSE, e |-> NoErr, isNull |-> isNull, str |-> str]

\* callRelay from its fetch on, the relay having answered r
callRelayAfterFetch(r) ==
    IF r.rejected THEN Threw(Err("network", 0))
    ELSE IF ~r.ok THEN Threw(Err("relay", r.status))
    ELSE IF ~r.parses THEN Threw(Err("parse", 0))
    ELSE LET text == Field(r.data, KeyText)
             answer == Field(r.data, KeyAnswer)
         IN Returned(FALSE, IF text # <<>> THEN text
                            ELSE IF answer # <<>> THEN answer
                            ELSE stringify(r.data))

\* the slip of leaving the reference line out of the failure message
afterRelayNoRef(c, ret, refText, qid) ==
    IF ret.threw
    THEN addMsg(c, Msg("bot", "relayfail", ret.e, FALSE, <<>>, qid))
    ELSE IF ret.isNull \/ ret.str = <<>>
    THEN addMsg(c, Msg("bot", "empty", <<>>, TRUE, refText, qid))
    ELSE addMsg(c, Msg("bot", "answer", ret.str, TRUE, refText, qid))

\* the handler after `await callRelay(q, top)`: the try's addMsg or the
\* catch's
afterRelay(c, ret, refText, qid) ==
    IF ret.threw
    THEN addMsg(c, Msg("bot", "relayfail", ret.e, TRUE, refText, qid))
    ELSE IF ret.isNull \/ ret.str = <<>>
    THEN addMsg(c, Msg("bot", "empty", <<>>, TRUE, refText, qid))
    ELSE addMsg(c, Msg("bot", "answer", ret.str, TRUE, refText, qid))

\* the slip of saying nothing when the index is not built
notReadySilent(c, qid) == c

\* if (!index) { addMsg('bot', <not built>); return; }
notReady(c, qid) == addMsg(c, Msg("bot", "notready", <<>>, FALSE, <<>>, qid))

\* the slip of one slot for the outstanding call: a new call replaces it
suspendReplacing(pend, closure) == {closure}

\* the handler suspends at `await callRelay(q, top)`; its closure keeps q
\* and refText.  Nothing bounds or cancels the suspended handlers.
suspend(pend, closure) == pend \cup {closure}

RawQueries ==
    { <<" ">>,
      <<" ", "d", "o", "g", "\n">>,
      <<"c", "a", "t", "!">> }

\* relayEndpoint.value
Endpoints == { <<>>, <<" ">>, <<"h", "t", "t", "p">> }

\* form's submit event: the handler up to its return or its suspension at
\* the relay's fetch.  With no endpoint callRelay returns null without
\* fetching, and the handler resumes in the same microtask checkpoint, before
\* any other event.
Submit(raw, useLlm, endpointRaw) ==
    /\ Len(subs) < MaxQueries
    /\ LET qid == Len(subs) + 1
           q == trim(raw)
           sub == [raw |-> raw, q |-> q, ready |-> index # Null, useLlm |-> useLlm,
                   scored |-> FALSE]
       IN IF q = <<>>
          THEN /\ subs' = Append(subs, sub)
               /\ UNCHANGED <<chat, pending, relayLog>>
          ELSE LET c1 == addMsg(chat, Msg("user", "user", q, FALSE, <<>>, qid))
               IN IF index = Null
                  THEN /\ chat' = notReady(c1, qid)
                       /\ subs' = Append(subs, sub)
                       /\ UNCHANGED <<pending, relayLog>>
                  ELSE LET top == score(q, index, HandlerTopK)
                           refText == refTextOf(top)
                           endpoint == trim(endpointRaw)
                       IN /\ subs' = Append(subs, [sub EXCEPT !.scored = TRUE])
                          /\ IF useLlm
                             THEN IF endpoint = <<>>
                                  THEN /\ chat' = afterRelay(c1, Returned(TRUE, <<>>), refText, qid)
                                       /\ UNCHANGED <<pending, relayLog>>
                                  ELSE /\ chat' = c1
                                       /\ pending' = suspend(pending,
                                              [qid |-> qid, q |-> q, refText |-> refText])
                                       /\ relayLog' = Append(relayLog,
                                              [qid |-> qid, prompt |-> q, contexts |-> top])
                             ELSE /\ chat' = addMsg(c1, Msg("bot", "template", stitchedOf(top),
                                                            TRUE, refText, qid))
                                  /\ UNCHANGED <<pending, relayLog>>
    /\ UNCHANGED <<docs, index, ldPc, fetchLog, responses, lastErr, relayDone>>
    /\ UNCHANGED pureVars

\* the relay's fetch of one suspended handler settles with r: the rest of
\* callRelay, then the rest of the handler
RelaySettle(p, r) ==
    /\ p \in pending
    /\ pending' = pending \ {p}
    /\ chat' = afterRelay(chat, callRelayAfterFetch(r), p.refText, p.qid)
    /\ relayDone' = relayDone \cup {[qid |-> p.qid, r |-> r]}
    /\ UNCHANGED <<docs, index, ldPc, fetchLog, responses, lastErr, relayLog, subs>>
    /\ UNCHANGED pureVars

----------------------------------------------------------------------------
(* The session: the script has run, loadData() has been called and its     *)
(* first fetch is outstanding.                                             *)

PureIdle ==
    /\ pItems = <<>>
    /\ pIndex = Null
    /\ pQuery = <<>>
    /\ pTopK = 0
    /\ pResult = <<>>
    /\ pPc = "idle"

SessionInit ==
    /\ chat = <<>>
    /\ docs = <<>>
    /\ index = Null
    /\ ldPc = "fetching"
    /\ fetchLog = <<paths[1]>>
    /\ responses = <<>>
    /\ lastErr = NoErr
    /\ pending = {}
    /\ relayLog = <<>>
    /\ relayDone = {}
    /\ subs = <<>>

Init == SessionInit /\ PureIdle

Load == \E r \in Responses : FetchSettle(r)

Query == \E raw \in RawQueries, useLlm \in BOOLEAN, e \in Endpoints : Submit(raw, useLlm, e)

Relay == \E p \in pending, r \in RelayResponses : RelaySettle(p, r)

Next == Load \/ Query \/ Relay

Spec == Init /\ [][Next]_vars

----------------------------------------------------------------------------
(* SpecPure: buildIndex and score applied to corpora and queries drawn     *)
(* from bounded sets.                                                      *)

PureTexts ==
    { <<"c","a","t"," ","d","o","g">>,
      <<"d","o","g"," ","d","o","g">>,
      <<"D","o","g","!">>,
      <<"c","a","t">>,
      <<" ">> }

PureQueries ==
    { <<>>,
      <<"d","o","g">>,
      <<"c","a","t"," ","d","o","g">>,
      <<"z">>,
      <<"D","o","g",","," ","d","o","g"," ","z">> }

\* the chunks of one record whose paragraphs are texts
Corpus(texts) ==
    [k \in 1..Len(texts) |->
        [id |-> <<"u", k - 1>>, text |-> texts[k], title |-> "T", date |-> "", url |-> "u"]]

Corpora == { Corpus(texts) : texts \in UNION { [1..n -> PureTexts] : n \in 0..MaxChunks } }

TopKs == 1..MaxTopK \cup {HandlerTopK}

InitPure ==
    /\ SessionInit
    /\ pItems \in Corpora
    /\ pIndex = Null
    /\ pQuery = <<>>
    /\ pTopK = 0
    /\ pResult = <<>>
    /\ pPc = "start"

PBuild ==
    /\ pPc = "start"
    /\ pIndex' = buildIndex(pItems)
    /\ pPc' = "indexed"
    /\ UNCHANGED <<pItems, pQuery, pTopK, pResult>>
    /\ UNCHANGED sessionVars

PScore ==
    /\ pPc \in {"indexed", "scored"}
    /\ \E q \in PureQueries, k \in TopKs :
          /\ pQuery' = q
          /\ pTopK' = k
          /\ pResult' = score(q, pIndex, k)
    /\ pPc' = "scored"
    /\ UNCHANGED <<pItems, pIndex>>
    /\ UNCHANGED sessionVars

NextPure == PBuild \/ PScore

SpecPure == InitPure /\ [][NextPure]_vars

----------------------------------------------------------------------------
(* Properties of buildIndex and score (SpecPure).                          *)

TextCatDog == <<"c","a","t"," ","d","o","g">>
TextDogDog == <<"d","o","g"," ","d","o","g">>
TermCat == <<"c","a","t">>
TermDog == <<"d","o","g">>

\* the number of occurrences of term t in a token sequence
Occurrences(tokens, t) == Cardinality({k \in 1..Len(tokens) : tokens[k] = t})

\* every term of the corpus and of the queries
TermsOf(items) ==
    UNION { {tokenize(items[i].text)[k] : k \in 1..Len(tokenize(items[i].text))}
            : i \in 1..Len(items) }
QueryTerms(q) == {tokenize(q)[k] : k \in 1..Len(tokenize(q))}
AllTerms == TermsOf(pItems) \cup UNION {QueryTerms(q) : q \in PureQueries}

AllScoresZero == \A k \in 1..Len(pResult) : pResult[k].score = 0

\* C5: score returns exactly min(topK, N) results for every query, corpus
\* and topK >= 1, chunks that scored zero included.
C5_ResultCount ==
    pPc = "scored" => Len(pResult) = Min(pTopK, Len(pItems))

\* topK = 8 against three chunks that all score zero: three results
C5_Witness ==
    /\ pPc = "scored"
    /\ pTopK = HandlerTopK
    /\ Len(pItems) = 3
    /\ Len(pResult) = 3
    /\ AllScoresZero

\* C6: results are in non-increasing score order, chunks of equal score in
\* corpus order; a query whose terms all have document frequency 0 returns
\* the first min(topK, N) chunks, in corpus order, each with score 0.
C6_RankOrder ==
    pPc = "scored" =>
        /\ \A a, b \in 1..Len(pResult) :
              a < b => /\ pResult[a].score >= pResult[b].score
                       /\ pResult[a].score = pResult[b].score => pResult[a].i < pResult[b].i
        /\ \A k \in 1..Len(pResult) : pResult[k].item = pItems[pResult[k].i]
        /\ (\A t \in QueryTerms(pQuery) : Get(pIndex.df, t) = 0) =>
              /\ Len(pResult) = Min(pTopK, Len(pItems))
              /\ \A k \in 1..Len(pResult) : pResult[k].score = 0 /\ pResult[k].i = k

\* a tie between chunks 1 and 3 below a higher-scoring chunk 2
C6_Witness ==
    /\ pPc = "scored"
    /\ Len(pResult) = 3
    /\ pResult[1].i = 2 /\ pResult[2].i = 1 /\ pResult[3].i = 3
    /\ pResult[1].score > pResult[2].score
    /\ pResult[2].score = pResult[3].score
    /\ pResult[2].score > 0

\* what query term t adds to chunk i's score (the body of score's loop)
Contribution(q, idx, t, i) ==
    LET df == Get(idx.df, t)
    IN IF df = 0 THEN 0
       ELSE TermWeight(Occurrences(tokenize(q), t), Get(idx.tf[i], t), Idf(idx.N, df))

\* C7: a query term absent from chunk i adds zero to chunk i's score,
\* whatever its document frequency; so a chunk with none of the query's
\* terms scores 0.
C7_AbsentTermAddsZero ==
    pPc = "scored" =>
        /\ \A i \in 1..Len(pItems), t \in QueryTerms(pQuery) :
              Get(pIndex.tf[i], t) = 0 => Contribution(pQuery, pIndex, t, i) = 0
        /\ \A k \in 1..Len(pResult) :
              (\A t \in QueryTerms(pQuery) : Get(pIndex.tf[pResult[k].i], t) = 0)
                  => pResult[k].score = 0

\* C8: documentFrequency[t] is the number of chunks whose termFrequency of t
\* is positive; tf[i] counts the tokens of items[i]; N is the chunk count;
\* and ["cat dog", "dog dog"] gives df[dog] = 2, df[cat] = 1, tf[1][dog] = 2
\* (tf[2] here, positions being 1-based).
C8_IndexInvariant ==
    pPc # "start" =>
        /\ pIndex.items = pItems
        /\ pIndex.N = Len(pItems)
        /\ Len(pIndex.tf) = Len(pItems)
        /\ \A t \in AllTerms :
              Get(pIndex.df, t) = Cardinality({i \in 1..Len(pItems) : Get(pIndex.tf[i], t) > 0})
        /\ \A i \in 1..Len(pItems), t \in AllTerms :
              Get(pIndex.tf[i], t) = Occurrences(tokenize(pItems[i].text), t)
        /\ (Len(pItems) = 2 /\ pItems[1].text = TextCatDog /\ pItems[2].text = TextDogDog) =>
              /\ Get(pIndex.df, TermDog) = 2
              /\ Get(pIndex.df, TermCat) = 1
              /\ Get(pIndex.tf[2], TermDog) = 2

\* the index of ["cat dog", "dog dog"]
C8_Witness ==
    /\ pPc = "indexed"
    /\ Len(pItems) = 2
    /\ pItems[1].text = TextCatDog
    /\ pItems[2].text = TextDogDog
    /\ pIndex.df[TermDog] = 2

----------------------------------------------------------------------------
(* Properties of the session (Spec).                                       *)

BotOf(qid) == SelectSeq(chat, LAMBDA m : m.role = "bot" /\ m.qid = qid)
UserOf(qid) == SelectSeq(chat, LAMBDA m : m.role = "user" /\ m.qid = qid)
LoaderMsgs(kind) == SelectSeq(chat, LAMBDA m : m.qid = 0 /\ m.kind = kind)

Last(seq) == seq[Len(seq)]

\* the claims' notion of a candidate fetched successfully: an ok status, a
\* body that is not HTML-shaped, valid JSON
Succeeds(r) == ~r.rejected /\ r.ok /\ ~r.body.startsLt /\ r.body.parses

Requested(qid) == \E k \in 1..Len(relayLog) : relayLog[k].qid = qid
Suspended(qid) == \E p \in pending : p.qid = qid
SettledOf(qid) == {d \in relayDone : d.qid = qid}

\* a submit event the handler accepts: a query that is not empty once
\* trimmed, with the index built
Accepted(qid) == subs[qid].q # <<>> /\ subs[qid].ready

\* the label of the top 3 results of submit event qid's own query
OwnRef(qid) == refTextOf(score(subs[qid].q, index, HandlerTopK))

\* C1: candidates are fetched strictly in list order, a later one only after
\* every earlier one failed; the load succeeds exactly when the last
\* response fetched is a success, no candidate is fetched after it, and the
\* corpus is the chunks of that response's content: for [A, B] with A
\* failing and B succeeding, B's chunks and none of A's.
C1_FirstSuccessWins ==
    /\ Len(fetchLog) <= Len(paths)
    /\ \A k \in 1..Len(fetchLog) : fetchLog[k] = paths[k]
    /\ Len(responses) <= Len(fetchLog)
    /\ Len(fetchLog) <= Len(responses) + 1
    /\ \A k \in 1..(Len(fetchLog) - 1) : ~Succeeds(responses[k])
    /\ ldPc = "loaded" <=> (responses # <<>> /\ Succeeds(Last(responses)))
    /\ ldPc = "loaded" =>
          /\ Len(fetchLog) = Len(responses)
          /\ docs = assemble(Last(responses).body.value)
          /\ index # Null
          /\ index.items = docs
          /\ Len(LoaderMsgs("loaded")) = 1
          /\ LoaderMsgs("loaded")[1].arg = Len(docs)
          /\ Len(responses) = 2 /\ responses[1].body.parses
             /\ responses[1].body.value # responses[2].body.value =>
                \A k \in 1..Len(docs) :
                   \A j \in 1..Len(assemble(responses[1].body.value)) :
                      docs[k] # assemble(responses[1].body.value)[j]

\* A answers 500 with the JSON of corpus A, B answers 200 with corpus B
C1_Witness ==
    /\ ldPc = "loaded"
    /\ Len(responses) = 2
    /\ responses[1] = Response(500, "application/json", JsonBody(DataA))
    /\ responses[2].body.value = DataB
    /\ Len(docs) = 2
    /\ docs[1].url = "ub"

\* C2: a query that is not empty (once trimmed) submitted while the index is
\* not built gets its user message and exactly one "not ready" bot message,
\* next to each other; score is not run and no relay call is made for it;
\* this stays so in every later state, the index built or not.
C2_NotReadyDiscarded ==
    \A qid \in 1..Len(subs) :
        (subs[qid].q # <<>> /\ ~subs[qid].ready) =>
            /\ UserOf(qid) = <<Msg("user", "user", subs[qid].q, FALSE, <<>>, qid)>>
            /\ BotOf(qid) = <<Msg("bot", "notready", <<>>, FALSE, <<>>, qid)>>
            /\ \E k \in 1..(Len(chat) - 1) :
                  /\ chat[k].qid = qid /\ chat[k].role = "user"
                  /\ chat[k + 1].qid = qid /\ chat[k + 1].role = "bot"
            /\ ~subs[qid].scored
            /\ ~Requested(qid)
            /\ ~Suspended(qid)
            /\ SettledOf(qid) = {}

\* a query refused before the load ended, the index built since, and a
\* later query answered
C2_Witness ==
    /\ Len(subs) = 2
    /\ subs[1].q # <<>> /\ ~subs[1].ready /\ subs[1].useLlm
    /\ index # Null
    /\ Accepted(2)
    /\ Len(BotOf(2)) = 1
    /\ Len(BotOf(1)) = 1

\* the claim's relay failures: a transport error or a non-success status
RelayFailed(r) == r.rejected \/ ~r.ok

C3_State ==
    /\ \A d \in relayDone :
          RelayFailed(d.r) =>
              /\ Len(BotOf(d.qid)) = 1
              /\ BotOf(d.qid)[1].kind = "relayfail"
              /\ BotOf(d.qid)[1].arg = (IF d.r.rejected THEN Err("network", 0)
                                        ELSE Err("relay", d.r.status))
              /\ BotOf(d.qid)[1].hasMeta
              /\ BotOf(d.qid)[1].meta = OwnRef(d.qid)
    /\ \A qid \in 1..Len(subs) :
          Accepted(qid) => IF Suspended(qid) THEN BotOf(qid) = <<>>
                           ELSE Len(BotOf(qid)) = 1

C3_Step ==
    relayDone' # relayDone => docs' = docs /\ index' = index /\ ldPc' = ldPc

\* C3: a relay call that fails (transport error or non-success status)
\* leaves exactly one bot failure message, carrying the reference label of
\* the top 3 results of that query; the step leaves docs and index as they
\* were; and every accepted query, before or after a failure, is answered
\* once its handler is no longer suspended.
C3_RelayFailure == [](C3_State) /\ [][C3_Step]_vars

\* a failed relay call, then a later query answered
C3_Witness ==
    /\ Len(subs) = 2
    /\ \E d \in relayDone : d.qid = 1 /\ RelayFailed(d.r)
    /\ Len(OwnRef(1)) = RefCount
    /\ Len(docs) > RefCount
    /\ Len(chat) = 5
    /\ chat[3].kind = "relayfail"
    /\ chat[3].meta = OwnRef(1)
    /\ chat[5].kind \in {"answer", "template"}
    /\ chat[5].qid = 2

\* C4: when every candidate fails, the error is the last candidate's, the
\* load failure is reported exactly once, index stays null and docs empty,
\* and each candidate has been fetched once and is never fetched again.
C4_TotalFailure ==
    /\ (Len(responses) = Len(paths) /\ \A k \in 1..Len(responses) : ~Succeeds(responses[k]))
          <=> ldPc = "failed"
    /\ ldPc = "failed" =>
          /\ fetchLog = paths
          /\ Len(responses) = Len(paths)
          /\ lastErr = attempt(Last(responses)).e
          /\ lastErr # NoErr
          /\ LoaderMsgs("loadfail") = <<Msg("bot", "loadfail", attempt(Last(responses)).e,
                                            FALSE, <<>>, 0)>>
          /\ LoaderMsgs("loaded") = <<>>
          /\ index = Null
          /\ docs = <<>>

\* both candidates failed, differently, and a query came afterwards
C4_Witness ==
    /\ ldPc = "failed"
    /\ attempt(responses[1]).e # attempt(responses[2]).e
    /\ Len(chat) = 3
    /\ chat[1].kind = "loadfail"
    /\ chat[3].kind = "notready"

\* the relay answered with success and a body without usable text
NoText(r) ==
    /\ ~r.rejected /\ r.ok /\ r.parses
    /\ Field(r.data, KeyText) = <<>>
    /\ Field(r.data, KeyAnswer) = <<>>

\* C9: when the relay responds successfully but with neither a non-empty
\* text nor a non-empty answer, the bot message is the literal "relay
\* response was empty" string, with the reference label.
C9_EmptyRelayAnswer ==
    \A d \in relayDone :
        NoText(d.r) =>
            BotOf(d.qid) = <<Msg("bot", "empty", <<>>, TRUE, OwnRef(d.qid), d.qid)>>

\* C10: with any number of handlers suspended at the relay and their calls
\* settling in any order, every accepted query whose call has settled has
\* exactly one bot message, and that message carries the label of its own
\* top 3 results; a call is outstanding or settled once, never lost.
C10_OwnAnswer ==
    \A qid \in 1..Len(subs) :
        Accepted(qid) =>
            /\ subs[qid].scored
            /\ Len(UserOf(qid)) = 1
            /\ IF Requested(qid)
               THEN \/ /\ Suspended(qid)
                       /\ SettledOf(qid) = {}
                       /\ BotOf(qid) = <<>>
                    \/ /\ ~Suspended(qid)
                       /\ Cardinality(SettledOf(qid)) = 1
                       /\ Len(BotOf(qid)) = 1
                       /\ BotOf(qid)[1].hasMeta
                       /\ BotOf(qid)[1].meta = OwnRef(qid)
               ELSE /\ ~Suspended(qid)
                    /\ SettledOf(qid) = {}
                    /\ Len(BotOf(qid)) = 1
                    /\ BotOf(qid)[1].hasMeta
                    /\ BotOf(qid)[1].meta = OwnRef(qid)

\* two overlapping relay calls of queries with different labels, answered
\* in the reverse of the order they were submitted in
C10_Witness ==
    /\ Len(subs) = 2
    /\ Requested(1) /\ Requested(2)
    /\ OwnRef(1) # OwnRef(2)
    /\ Len(chat) = 5
    /\ chat[2].role = "user" /\ chat[2].qid = 1
    /\ chat[3].role = "user" /\ chat[3].qid = 2
    /\ chat[4].role = "bot" /\ chat[4].qid = 2 /\ chat[4].meta = OwnRef(2)
    /\ chat[5].role = "bot" /\ chat[5].qid = 1 /\ chat[5].meta = OwnRef(1)

====
